---- MODULE Spec2Model ----
(***************************************************************************)
(* Model of the get-shit-done installer's platform adapter layer:          *)
(*   - the frontmatter codec (parseFrontmatter, serializeFrontmatter,      *)
(*     reconstructMarkdown) of the adapter base,                           *)
(*   - the Cursor adapter's transformations (transformFrontmatter,         *)
(*     transformFileReferences, transformCommandReferences,                *)
(*     transformContent),                                                  *)
(*   - the installer's argument handling and dispatch (bin/install.js).    *)
(*                                                                         *)
(* A JavaScript string is a sequence of one-character strings, so that     *)
(* trimming, splitting, regular-expression matching and replacement are    *)
(* computed character by character as the code computes them.              *)
(***************************************************************************)
EXTENDS Integers, Sequences, FiniteSets, TLC

VARIABLES
    content,      \* the text handed to the function under study
    pathPrefix,   \* the pathPrefix argument of transformContent
    result,       \* the text produced so far (transformContent's `result`)
    again,        \* the text produced by a second application
    parsed,       \* the value returned by parseFrontmatter
    reparsed,     \* the value returned by parseFrontmatter on a rebuilt text
    frontmatter,  \* transformFrontmatter's `frontmatter` when it returns
    threw,        \* TRUE once a function has thrown a TypeError
    stage,        \* the position in the function or pipeline under study
    args,         \* the installer's command line, process.argv.slice(2)
    env,          \* process.env.CLAUDE_CONFIG_DIR, <<>> when it is not set
    selectedPlatform,   \* the value returned by parseAiArg
    explicitConfigDir,  \* the value returned by parseConfigDirArg, <<>> for null
    choice,       \* the choice read from the prompt, <<>> before it is read
    pc,           \* the installer's position in bin/install.js
    installs,     \* the calls of install(): <<[isGlobal, configDir]>>
    loaded,       \* the adapters constructed by loadAdapter
    io,           \* the file-system effects of the run, in order
    exitCode,     \* the installer's exit status, -1 while it runs
    options,      \* the options handed to an adapter's constructor
    processCwd,   \* process.cwd(), the cwd argument of getTargetDir
    osHomedir     \* os.homedir(), the homeDir argument of getTargetDir

vars == <<content, pathPrefix, result, again, parsed, reparsed, frontmatter, threw, stage,
          args, env, selectedPlatform, explicitConfigDir, choice,
          pc, installs, loaded, io, exitCode, options, processCwd, osHomedir>>

docVars == <<content, pathPrefix, result, again, parsed, reparsed, frontmatter, threw, stage>>
instVars == <<args, env, selectedPlatform, explicitConfigDir, choice,
             pc, installs, loaded, io, exitCode, options, processCwd, osHomedir>>
callVars == <<options, processCwd, osHomedir>>

-----------------------------------------------------------------------------
(* Characters and strings                                                  *)

NL == "\n"
CR == "\r"

\* What String.prototype.trim strips and what \s matches.
WhiteSpace == {" ", "\t", "\n", "\r"}

\* What `.` does not match and where $ and ^ match under the m flag.
LineTerminators == {"\n", "\r"}

Digits == {"0", "1", "2", "3", "4", "5", "6", "7", "8", "9"}

LowerCase ==
    {"a", "b", "c", "d", "e", "f", "g", "h", "i", "j", "k", "l", "m",
     "n", "o", "p", "q", "r", "s", "t", "u", "v", "w", "x", "y", "z"}

UpperCase ==
    {"A", "B", "C", "D", "E", "F", "G", "H", "I", "J", "K", "L", "M",
     "N", "O", "P", "Q", "R", "S", "T", "U", "V", "W", "X", "Y", "Z"}

\* \w
WordChars == LowerCase \cup UpperCase \cup Digits \cup {"_"}

\* s.slice(i) with a 0-based i
Slice(s, i) == SubSeq(s, i + 1, Len(s))

\* p occurs in s at the 1-based position i
MatchesAt(s, p, i) ==
    /\ i >= 1
    /\ i + Len(p) - 1 <= Len(s)
    /\ \A k \in 1..Len(p) : s[i + k - 1] = p[k]

StartsWith(s, p) == MatchesAt(s, p, 1)

\* The first position >= from at which p occurs in s, 0 when there is none.
IndexOfFrom(s, p, from) ==
    LET hits == {i \in from..(Len(s) - Len(p) + 1) : MatchesAt(s, p, i)}
    IN  IF hits = {} THEN 0 ELSE CHOOSE i \in hits : \A j \in hits : i <= j

Includes(s, p) == IndexOfFrom(s, p, 1) # 0

\* The first position >= from of a character of the set cs, 0 when there
\* is none.
IndexOfAnyFrom(s, cs, from) ==
    LET hits == {i \in from..Len(s) : s[i] \in cs}
    IN  IF hits = {} THEN 0 ELSE CHOOSE i \in hits : \A j \in hits : i <= j

RECURSIVE TrimStart(_)
TrimStart(s) ==
    IF s # <<>> /\ Head(s) \in WhiteSpace THEN TrimStart(Tail(s)) ELSE s

RECURSIVE TrimEnd(_)
TrimEnd(s) ==
    IF s # <<>> /\ s[Len(s)] \in WhiteSpace
    THEN TrimEnd(SubSeq(s, 1, Len(s) - 1))
    ELSE s

\* String.prototype.trim
Trim(s) == TrimEnd(TrimStart(s))

\* s.split('\n'): always at least one element
RECURSIVE SplitLines(_)
SplitLines(s) ==
    LET i == IndexOfFrom(s, <<NL>>, 1)
    IN  IF i = 0
        THEN <<s>>
        ELSE <<SubSeq(s, 1, i - 1)>> \o SplitLines(SubSeq(s, i + 1, Len(s)))

\* parts.join(sep)
RECURSIVE Join(_, _)
Join(parts, sep) ==
    IF parts = <<>> THEN <<>>
    ELSE IF Len(parts) = 1 THEN parts[1]
    ELSE parts[1] \o sep \o Join(Tail(parts), sep)

\* s.replace(/c/g, d) for one-character c, and d free of $ patterns
ReplaceChar(s, c, d) == [i \in 1..Len(s) |-> IF s[i] = c THEN d ELSE s[i]]

-----------------------------------------------------------------------------
(* The frontmatter codec (adapter base)                                    *)

OpenMarker == <<"-", "-", "-", "\n">>
CloseMarker == <<"\n", "-", "-", "-", "\n">>

\* A frontmatter object is the sequence of its own properties in the order
\* Object.entries lists them.  A property holds a string (isArray = FALSE,
\* in `scalar`) or an array of strings (isArray = TRUE, in `items`).
ScalarField(k, v) == [key |-> k, isArray |-> FALSE, scalar |-> v, items |-> <<>>]
ArrayField(k, xs) == [key |-> k, isArray |-> TRUE, scalar |-> <<>>, items |-> xs]

NoFrontmatter == [isNull |-> TRUE, fields |-> <<>>]
Frontmatter(fs) == [isNull |-> FALSE, fields |-> fs]

HasField(fs, k) == \E i \in 1..Len(fs) : fs[i].key = k
FieldIndex(fs, k) == CHOOSE i \in 1..Len(fs) : fs[i].key = k
GetField(fs, k) == fs[FieldIndex(fs, k)]

\* An integer-like property name ("0", "1", "10", not "01"): JavaScript
\* lists these first, in ascending numeric order, before the other names.
IsArrayIndex(k) ==
    /\ k # <<>>
    /\ \A i \in 1..Len(k) : k[i] \in Digits
    /\ (Len(k) = 1 \/ k[1] # "0")

DigitValue(c) ==
    CASE c = "0" -> 0 [] c = "1" -> 1 [] c = "2" -> 2 [] c = "3" -> 3
      [] c = "4" -> 4 [] c = "5" -> 5 [] c = "6" -> 6 [] c = "7" -> 7
      [] c = "8" -> 8 [] OTHER -> 9

RECURSIVE NumValue(_)
NumValue(k) ==
    IF k = <<>> THEN 0
    ELSE 10 * NumValue(SubSeq(k, 1, Len(k) - 1)) + DigitValue(k[Len(k)])

\* frontmatter[k] = ... : an existing property keeps its place, a new one
\* goes to the end, or among the integer-like names by value.
SetField(fs, f) ==
    IF HasField(fs, f.key)
    THEN [fs EXCEPT ![FieldIndex(fs, f.key)] = f]
    ELSE IF IsArrayIndex(f.key)
    THEN LET before == {i \in 1..Len(fs) :
                           /\ IsArrayIndex(fs[i].key)
                           /\ NumValue(fs[i].key) < NumValue(f.key)}
             n == Cardinality(before)
         IN  SubSeq(fs, 1, n) \o <<f>> \o SubSeq(fs, n + 1, Len(fs))
    ELSE Append(fs, f)

\* delete frontmatter[k]
DeleteField(fs, k) == SelectSeq(fs, LAMBDA f : f.key # k)

\* line.match(/^(\w[\w-]*):(.*)$/): the key is the text before the first
\* colon; `.` matches no line terminator and $ only the end of the line.
KvColon(line) == IndexOfFrom(line, <<":">>, 1)

KvMatches(line) ==
    LET c == KvColon(line)
    IN  /\ c >= 2
        /\ line[1] \in WordChars
        /\ \A i \in 2..(c - 1) : line[i] \in WordChars \cup {"-"}
        /\ \A i \in (c + 1)..Len(line) : line[i] \notin LineTerminators

KvKey(line) == SubSeq(line, 1, KvColon(line) - 1)
KvValue(line) == Trim(SubSeq(line, KvColon(line) + 1, Len(line)))

\* The loop over the header's lines. st = [fm, currentKey, hasKey, hasArray]:
\* hasKey is `currentKey` being set, hasArray is `currentArray` being set
\* (it is then the array stored under currentKey).
ParseStart == [fm |-> <<>>, currentKey |-> <<>>, hasKey |-> FALSE, hasArray |-> FALSE]

ParseLine(st, line) ==
    LET trimmed == Trim(line)
    IN  IF trimmed = <<>> THEN st
        ELSE IF StartsWith(trimmed, <<"-", " ">>) /\ st.hasKey
        THEN LET item == Trim(Slice(trimmed, 2))
                 old == IF st.hasArray THEN GetField(st.fm, st.currentKey).items
                        ELSE <<>>
             IN  [st EXCEPT !.fm = SetField(st.fm,
                                    ArrayField(st.currentKey, Append(old, item))),
                            !.hasArray = TRUE]
        ELSE IF KvMatches(line)
        THEN LET value == KvValue(line)
             IN  [fm |-> IF value # <<>>
                         THEN SetField(st.fm, ScalarField(KvKey(line), value))
                         ELSE st.fm,
                  currentKey |-> KvKey(line),
                  hasKey |-> TRUE,
                  hasArray |-> FALSE]
        ELSE st

RECURSIVE ParseLines(_, _)
ParseLines(st, lines) ==
    IF lines = <<>> THEN st
    ELSE ParseLines(ParseLine(st, Head(lines)), Tail(lines))

\* content.match(/^---\n([\s\S]*?)\n---\n([\s\S]*)$/): the closing marker
\* is the first "\n---\n" at or after the end of the opening "---\n".
ClosePos(text) ==
    IF StartsWith(text, OpenMarker)
    THEN IndexOfFrom(text, CloseMarker, Len(OpenMarker) + 1)
    ELSE 0

parseFrontmatter(text) ==
    LET c == ClosePos(text)
    IN  IF c = 0
        THEN [frontmatter |-> NoFrontmatter, body |-> text,
              raw |-> <<>>, rawIsNull |-> TRUE]
        ELSE LET raw == SubSeq(text, Len(OpenMarker) + 1, c - 1)
                 body == SubSeq(text, c + Len(CloseMarker), Len(text))
             IN  [frontmatter |->
                      Frontmatter(ParseLines(ParseStart, SplitLines(raw)).fm),
                  body |-> body, raw |-> raw, rawIsNull |-> FALSE]

\* A serializer that writes a list on the key's own line.
FieldLinesInline(f) ==
    IF f.isArray
    THEN <<f.key \o <<":", " ">> \o Join(f.items, <<",", " ">>)>>
    ELSE <<f.key \o <<":", " ">> \o f.scalar>>

FieldLines(f) ==
    IF f.isArray
    THEN <<f.key \o <<":">>>> \o
         [i \in 1..Len(f.items) |-> <<" ", " ", "-", " ">> \o f.items[i]]
    ELSE <<f.key \o <<":", " ">> \o f.scalar>>

RECURSIVE AllFieldLines(_)
AllFieldLines(fs) ==
    IF fs = <<>> THEN <<>> ELSE FieldLines(Head(fs)) \o AllFieldLines(Tail(fs))

serializeFrontmatter(fs) == Join(AllFieldLines(fs), <<NL>>)

reconstructMarkdown(fs, body) ==
    OpenMarker \o serializeFrontmatter(fs) \o CloseMarker \o body

-----------------------------------------------------------------------------
(* The Cursor adapter: transformFrontmatter                                *)

AllowedTools == <<"a", "l", "l", "o", "w", "e", "d", "-", "t", "o", "o", "l", "s">>
ArgumentHint == <<"a", "r", "g", "u", "m", "e", "n", "t", "-", "h", "i", "n", "t">>
Description == <<"d", "e", "s", "c", "r", "i", "p", "t", "i", "o", "n">>
Name == <<"n", "a", "m", "e">>

\* `${value}`: an array is joined with commas.
Stringify(f) == IF f.isArray THEN Join(f.items, <<",">>) ELSE f.scalar

\* frontmatter.name.includes(':'): a substring test on a string, an
\* element test on an array.
NameIncludesColon(f) ==
    IF f.isArray
    THEN \E i \in 1..Len(f.items) : f.items[i] = <<":">>
    ELSE Includes(f.scalar, <<":">>)

\* frontmatter.name = frontmatter.name.replace(/:/g, '/'); an array has no
\* replace method, the call throws a TypeError.
RenameThrows(fs) ==
    /\ HasField(fs, Name)
    /\ GetField(fs, Name).isArray
    /\ NameIncludesColon(GetField(fs, Name))

Rename(fs) ==
    IF HasField(fs, Name) /\ NameIncludesColon(GetField(fs, Name))
    THEN SetField(fs, ScalarField(Name, ReplaceChar(GetField(fs, Name).scalar, ":", "/")))
    ELSE fs

\* The argument-hint is appended to the description and removed.
MergeHint(fs) ==
    IF HasField(fs, ArgumentHint)
    THEN LET hint == Stringify(GetField(fs, ArgumentHint))
             desc == IF HasField(fs, Description)
                     THEN Stringify(GetField(fs, Description))
                     ELSE <<>>
             text == IF desc # <<>>
                     THEN desc \o <<" ", "A", "r", "g", "u", "m", "e", "n", "t", "s", ":", " ">> \o hint
                     ELSE <<"A", "r", "g", "u", "m", "e", "n", "t", "s", ":", " ">> \o hint
         IN  DeleteField(SetField(fs, ScalarField(Description, text)), ArgumentHint)
    ELSE fs

\* The `frontmatter` object when transformFrontmatter reaches its return.
CursorFields(fs) == MergeHint(Rename(DeleteField(fs, AllowedTools)))

\* A transformFrontmatter that lacks the `if (!frontmatter) return content`.
transformFrontmatterNoNullCheck(text) ==
    LET p == parseFrontmatter(text)
    IN  IF RenameThrows(DeleteField(p.frontmatter.fields, AllowedTools))
        THEN [threw |-> TRUE, text |-> <<>>, frontmatter |-> NoFrontmatter]
        ELSE [threw |-> FALSE,
              text |-> reconstructMarkdown(CursorFields(p.frontmatter.fields), p.body),
              frontmatter |-> Frontmatter(CursorFields(p.frontmatter.fields))]

\* CursorAdapter.transformFrontmatter: [threw, text, frontmatter]
transformFrontmatter(text) ==
    LET p == parseFrontmatter(text)
    IN  IF p.frontmatter.isNull
        THEN [threw |-> FALSE, text |-> text, frontmatter |-> NoFrontmatter]
        ELSE IF RenameThrows(DeleteField(p.frontmatter.fields, AllowedTools))
        THEN [threw |-> TRUE, text |-> <<>>, frontmatter |-> NoFrontmatter]
        ELSE [threw |-> FALSE,
              text |-> reconstructMarkdown(CursorFields(p.frontmatter.fields), p.body),
              frontmatter |-> Frontmatter(CursorFields(p.frontmatter.fields))]

-----------------------------------------------------------------------------
(* The Cursor adapter: transformFileReferences                             *)

ReadHeader ==
    <<"*", "*", "R", "e", "a", "d", " ", "t", "h", "e", "s", "e", " ", "f", "i", "l", "e",
      "s", " ", "b", "e", "f", "o", "r", "e", " ", "p", "r", "o", "c", "e", "e", "d", "i",
      "n", "g", ":", "*", "*">>

\* The characters escapeRegex puts a backslash before: [.*+?^${}()|[\]\\]
RegexSpecial == {".", "*", "+", "?", "^", "$", "{", "}", "(", ")", "|", "[", "]", "\\"}

\* str.replace(/[.*+?^${}()|[\]\\]/g, '\\$&')
RECURSIVE escapeRegex(_)
escapeRegex(str) ==
    LET i == IndexOfAnyFrom(str, RegexSpecial, 1)
    IN  IF i = 0 THEN str
        ELSE SubSeq(str, 1, i - 1) \o <<"\\", str[i]>>
             \o escapeRegex(SubSeq(str, i + 1, Len(str)))

\* The text a pattern matches when each of its special characters is
\* escaped: `\n` is a line feed, `\c` is the character c.
RECURSIVE PatternLiteral(_)
PatternLiteral(p) ==
    LET i == IndexOfAnyFrom(p, {"\\"}, 1)
    IN  IF i = 0 \/ i = Len(p) THEN p
        ELSE SubSeq(p, 1, i - 1) \o <<IF p[i + 1] = "n" THEN NL ELSE p[i + 1]>>
             \o PatternLiteral(SubSeq(p, i + 2, Len(p)))

\* The replacement text of String.prototype.replace for a pattern without
\* groups: $$ is a dollar, $& the match, $' the text after the match; any
\* other dollar stands for itself.  (The fourth form, a dollar and a grave
\* accent for the text before the match, needs a character no text of this
\* model holds.)
RECURSIVE ExpandReplacement(_, _, _)
ExpandReplacement(repl, matched, after) ==
    LET i == IndexOfAnyFrom(repl, {"$"}, 1)
    IN  IF i = 0 \/ i = Len(repl) THEN repl
        ELSE SubSeq(repl, 1, i - 1)
             \o (CASE repl[i + 1] = "$" -> <<"$">>
                   [] repl[i + 1] = "&" -> matched
                   [] repl[i + 1] = "'" -> after
                   [] OTHER -> <<"$", repl[i + 1]>>)
             \o ExpandReplacement(SubSeq(repl, i + 2, Len(repl)), matched, after)

\* s.replace(new RegExp(pattern), repl): the first match only.
RegexReplaceFirst(s, pattern, repl) ==
    LET lit == PatternLiteral(pattern)
        pos == IndexOfFrom(s, lit, 1)
        before == SubSeq(s, 1, pos - 1)
        after == SubSeq(s, pos + Len(lit), Len(s))
    IN  IF pos = 0 THEN s
        ELSE before \o ExpandReplacement(repl, lit, after) \o after

\* /^(@[^\s]+)$/gm finds a match: an @ at the start of the text or after a
\* line terminator, then characters that are not white space up to the end
\* of the text or a line terminator.
ExactRefAt(text, i) ==
    /\ text[i] = "@"
    /\ (i = 1 \/ text[i - 1] \in LineTerminators)
    /\ i < Len(text)
    /\ text[i + 1] \notin WhiteSpace
    /\ \E j \in (i + 1)..Len(text) :
          /\ \A k \in (i + 1)..j : text[k] \notin WhiteSpace
          /\ (j = Len(text) \/ text[j + 1] \in LineTerminators)

HasExactRef(text) == \E i \in 1..Len(text) : ExactRefAt(text, i)

\* line.startsWith('@') && !line.includes(' ') && line.length > 1
IsRefLine(line) ==
    /\ StartsWith(line, <<"@">>)
    /\ ~Includes(line, <<" ">>)
    /\ Len(line) > 1

\* The blocks of consecutive reference lines, each line trimmed.
RECURSIVE CollectBlocks(_, _)
CollectBlocks(lines, blockRefs) ==
    LET flush == IF blockRefs = <<>> THEN <<>> ELSE <<blockRefs>>
    IN  IF lines = <<>> THEN flush
        ELSE IF IsRefLine(Trim(Head(lines)))
        THEN CollectBlocks(Tail(lines), Append(blockRefs, Trim(Head(lines))))
        ELSE flush \o CollectBlocks(Tail(lines), <<>>)

ReadInstructions(blockRefs) ==
    ReadHeader \o <<NL>> \o
    Join([i \in 1..Len(blockRefs) |-> <<"-", " ">> \o Slice(blockRefs[i], 1)], <<NL>>)

BlockPattern(blockRefs) ==
    Join([i \in 1..Len(blockRefs) |-> escapeRegex(blockRefs[i])], <<"\\", "n">>)

\* result = result.replace(new RegExp(blockPattern), readInstructions)
ReplaceBlock(res, blockRefs) ==
    RegexReplaceFirst(res, BlockPattern(blockRefs), ReadInstructions(blockRefs))

RECURSIVE ReplaceBlocks(_, _)
ReplaceBlocks(res, blocks) ==
    IF blocks = <<>> THEN res
    ELSE ReplaceBlocks(ReplaceBlock(res, Head(blocks)), Tail(blocks))

\* CursorAdapter.transformFileReferences
transformFileReferences(text) ==
    IF ~HasExactRef(text) THEN text
    ELSE ReplaceBlocks(text, CollectBlocks(SplitLines(text), <<>>))

-----------------------------------------------------------------------------
(* The Cursor adapter: transformCommandReferences                          *)

commandSeparator == <<"/">>

GsdColon == <<"/", "g", "s", "d", ":">>

\* [a-z-]
CommandChars == LowerCase \cup {"-"}

\* The length of the longest run of [a-z-] characters of s from position i.
CommandNameLen(s, i) ==
    LET stop == {j \in i..Len(s) : s[j] \notin CommandChars}
    IN  IF stop = {} THEN Len(s) - i + 1
        ELSE (CHOOSE j \in stop : \A k \in stop : j <= k) - i

\* The first position >= i at which /\/gsd:([a-z-]+)/ matches, 0 when there
\* is none.
NextCommand(s, i) ==
    LET hits == {j \in i..Len(s) :
                    MatchesAt(s, GsdColon, j) /\ CommandNameLen(s, j + Len(GsdColon)) > 0}
    IN  IF hits = {} THEN 0 ELSE CHOOSE j \in hits : \A k \in hits : j <= k

\* content.replace(/\/gsd:([a-z-]+)/g, `/gsd${sep}$1`) from position i on:
\* matches are taken left to right and do not overlap.
RECURSIVE ReplaceCommandsFrom(_, _, _)
ReplaceCommandsFrom(s, i, sep) ==
    LET m == NextCommand(s, i)
        n == CommandNameLen(s, m + Len(GsdColon))
    IN  IF m = 0 THEN SubSeq(s, i, Len(s))
        ELSE SubSeq(s, i, m - 1) \o <<"/", "g", "s", "d">> \o sep
             \o SubSeq(s, m + Len(GsdColon), m + Len(GsdColon) + n - 1)
             \o ReplaceCommandsFrom(s, m + Len(GsdColon) + n, sep)

\* The same replace without the g flag: the first match only.
transformCommandReferencesFirstOnly(text) ==
    LET m == NextCommand(text, 1)
    IN  IF m = 0 THEN text
        ELSE SubSeq(text, 1, m - 1) \o <<"/", "g", "s", "d">> \o commandSeparator
             \o SubSeq(text, m + Len(GsdColon), Len(text))

\* CursorAdapter.transformCommandReferences
transformCommandReferences(text) == ReplaceCommandsFrom(text, 1, commandSeparator)

-----------------------------------------------------------------------------
(* The adapter base: getTargetDir, getPathPrefix; transformContent         *)

\* The platform identifiers, ClaudeCodeAdapter.id and CursorAdapter.id
ClaudeId == <<"c", "l", "a", "u", "d", "e">>
CursorId == <<"c", "u", "r", "s", "o", "r">>

\* ClaudeCodeAdapter.dirName and CursorAdapter.dirName
dirName(id) == <<".">> \o id

\* An adapter is its platform's id with the two fields the constructor
\* sets; configDir is <<>> for null.
Adapter(id, isGlobal, configDir) ==
    [id |-> id, isGlobal |-> isGlobal, configDir |-> configDir]

getTargetDir(a, cwd, homeDir) ==
    IF a.configDir # <<>> THEN a.configDir
    ELSE IF a.isGlobal THEN homeDir \o <<"/">> \o dirName(a.id)
    ELSE cwd \o <<"/">> \o dirName(a.id)

\* getPathPrefix with the scope tested before the override.
getPathPrefixScopeFirst(a) ==
    IF a.isGlobal THEN <<"~", "/">> \o dirName(a.id) \o <<"/">>
    ELSE IF a.configDir # <<>> THEN a.configDir \o <<"/">>
    ELSE <<".", "/">> \o dirName(a.id) \o <<"/">>

getPathPrefix(a) ==
    IF a.configDir # <<>> THEN a.configDir \o <<"/">>
    ELSE IF a.isGlobal THEN <<"~", "/">> \o dirName(a.id) \o <<"/">>
    ELSE <<".", "/">> \o dirName(a.id) \o <<"/">>

\* The source platform's prefix, /~\/\.claude\//
ClaudePrefix == <<"~", "/", ".", "c", "l", "a", "u", "d", "e", "/">>

\* s.replace(/literal/g, repl) from position i on.
RECURSIVE ReplaceAllFrom(_, _, _, _)
ReplaceAllFrom(s, lit, repl, i) ==
    LET m == IndexOfFrom(s, lit, i)
    IN  IF m = 0 THEN SubSeq(s, i, Len(s))
        ELSE SubSeq(s, i, m - 1)
             \o ExpandReplacement(repl, lit, SubSeq(s, m + Len(lit), Len(s)))
             \o ReplaceAllFrom(s, lit, repl, m + Len(lit))

\* result.replace(/~\/\.claude\//g, pathPrefix)
ReplaceClaudePrefix(text, prefix) == ReplaceAllFrom(text, ClaudePrefix, prefix, 1)

-----------------------------------------------------------------------------
(* The documents the functions are applied to                              *)

MaxHeaderLines == 3

\* Header lines: scalar fields, a key without a value, list items (one that
\* is a lone colon, one with a carriage return inside), a line that is
\* neither `key: value` nor a list item, an integer-like key.  The empty
\* header is one blank line.
HeaderLines ==
    { <<"n", "a", "m", "e", ":", " ", "g", ":", "x">>,
      <<"n", "a", "m", "e", ":">>,
      <<" ", " ", "-", " ", ":">>,
      <<"-", " ", "a", "\r", "b">>,
      <<"d", "e", "s", "c", "r", "i", "p", "t", "i", "o", "n", ":", " ", "d">>,
      <<"a", "r", "g", "u", "m", "e", "n", "t", "-", "h", "i", "n", "t", ":", " ", "h">>,
      <<"a", "l", "l", "o", "w", "e", "d", "-", "t", "o", "o", "l", "s", ":", " ", "R">>,
      <<"#", " ", "c">>,
      <<"1", ":", " ", "n">> }

Headers ==
    UNION {{Join(ls, <<NL>>) : ls \in [1..n -> HeaderLines]} : n \in 0..MaxHeaderLines}

\* Bodies: empty, one that holds a marker line of its own.
Bodies == { <<>>, <<"b", "\n", "-", "-", "-", "\n">> }

\* Documents with a header block, with an unterminated header block (the
\* closing marker is missing), and without a header block.
HeaderDocs == {OpenMarker \o h \o CloseMarker \o b : h \in Headers, b \in Bodies}
UnterminatedDocs == {OpenMarker \o h \o <<NL>> : h \in Headers}
PlainDocs == {h \o <<NL>> : h \in Headers}

Documents == HeaderDocs \cup UnterminatedDocs \cup PlainDocs

-----------------------------------------------------------------------------
(* Idle values of the variables a specification does not use               *)

NoParse == [frontmatter |-> NoFrontmatter, body |-> <<>>, raw |-> <<>>, rawIsNull |-> TRUE]

NoOptions == [hasIsGlobal |-> FALSE, isGlobal |-> FALSE,
              hasConfigDir |-> FALSE, configDir |-> <<>>]

CallIdle ==
    /\ options = NoOptions
    /\ processCwd = <<>>
    /\ osHomedir = <<>>

InstallerIdle ==
    /\ args = <<>>
    /\ env = <<>>
    /\ selectedPlatform = <<>>
    /\ explicitConfigDir = <<>>
    /\ choice = <<>>
    /\ pc = "idle"
    /\ installs = <<>>
    /\ loaded = <<>>
    /\ io = <<>>
    /\ exitCode = -1
    /\ CallIdle

DocIdle ==
    /\ content = <<>>
    /\ pathPrefix = <<>>
    /\ result = <<>>
    /\ again = <<>>
    /\ parsed = NoParse
    /\ reparsed = NoParse
    /\ frontmatter = NoFrontmatter
    /\ threw = FALSE
    /\ stage = "idle"

-----------------------------------------------------------------------------
(* SpecCodec: parseFrontmatter, reconstructMarkdown, parseFrontmatter      *)

InitCodec ==
    /\ content \in Documents
    /\ pathPrefix = <<>>
    /\ result = <<>>
    /\ again = <<>>
    /\ parsed = NoParse
    /\ reparsed = NoParse
    /\ frontmatter = NoFrontmatter
    /\ threw = FALSE
    /\ stage = "text"
    /\ InstallerIdle

Parse ==
    /\ stage = "text"
    /\ parsed' = parseFrontmatter(content)
    /\ stage' = "parsed"
    /\ UNCHANGED <<content, pathPrefix, result, again, reparsed, frontmatter, threw>>
    /\ UNCHANGED instVars

Reconstruct ==
    /\ stage = "parsed"
    /\ ~parsed.frontmatter.isNull
    /\ result' = reconstructMarkdown(parsed.frontmatter.fields, parsed.body)
    /\ stage' = "rebuilt"
    /\ UNCHANGED <<content, pathPrefix, again, parsed, reparsed, frontmatter, threw>>
    /\ UNCHANGED instVars

Reparse ==
    /\ stage = "rebuilt"
    /\ reparsed' = parseFrontmatter(result)
    /\ stage' = "reparsed"
    /\ UNCHANGED <<content, pathPrefix, result, again, parsed, frontmatter, threw>>
    /\ UNCHANGED instVars

NextCodec == Parse \/ Reconstruct \/ Reparse

SpecCodec == InitCodec /\ [][NextCodec]_vars

\* C1: round trip. Parsing the text rebuilt from a parsed frontmatter and
\* a body gives back that frontmatter (same fields, same values, same order
\* of fields and of list items) and that body.
C1_RoundTrip ==
    stage = "reparsed" =>
        /\ ~reparsed.frontmatter.isNull
        /\ reparsed.frontmatter.fields = parsed.frontmatter.fields
        /\ reparsed.body = parsed.body

\* A round trip of a frontmatter holding a list of two items, the second
\* with a carriage return inside, together with a body that holds a
\* marker line.
C1_Witness ==
    /\ stage = "reparsed"
    /\ Len(parsed.frontmatter.fields) = 1
    /\ parsed.frontmatter.fields[1].isArray
    /\ Len(parsed.frontmatter.fields[1].items) = 2
    /\ Includes(parsed.frontmatter.fields[1].items[2], <<CR>>)
    /\ Includes(parsed.body, <<"-", "-", "-">>)

-----------------------------------------------------------------------------
(* SpecFrontmatter: the Cursor transformFrontmatter, applied once and      *)
(* then to its own output                                                  *)

InitFrontmatter ==
    /\ content \in Documents
    /\ pathPrefix = <<>>
    /\ result = <<>>
    /\ again = <<>>
    /\ parsed = NoParse
    /\ reparsed = NoParse
    /\ frontmatter = NoFrontmatter
    /\ threw = FALSE
    /\ stage = "text"
    /\ InstallerIdle

TransformOnce ==
    /\ stage = "text"
    /\ parsed' = parseFrontmatter(content)
    /\ LET r == transformFrontmatter(content)
       IN  /\ result' = r.text
           /\ frontmatter' = r.frontmatter
           /\ threw' = r.threw
    /\ stage' = "once"
    /\ UNCHANGED <<content, pathPrefix, again, reparsed>>
    /\ UNCHANGED instVars

TransformTwice ==
    /\ stage = "once"
    /\ ~threw
    /\ LET r == transformFrontmatter(result)
       IN  /\ again' = r.text
           /\ threw' = r.threw
    /\ stage' = "twice"
    /\ UNCHANGED <<content, pathPrefix, result, parsed, reparsed, frontmatter>>
    /\ UNCHANGED instVars

NextFrontmatter == TransformOnce \/ TransformTwice

SpecFrontmatter == InitFrontmatter /\ [][NextFrontmatter]_vars

\* C2: idempotence. The Cursor transformFrontmatter applied to its own
\* output returns that output unchanged.
C2_Idempotent == stage = "twice" => (~threw /\ again = result)

\* The mapping C7 describes: allowed-tools removed, every colon of the
\* name replaced by a slash, the argument-hint merged into the description
\* and removed, every other field kept in place.
C7_Expected(fs) ==
    LET dropped == DeleteField(fs, AllowedTools)
        renamed ==
            IF ~HasField(dropped, Name) THEN dropped
            ELSE LET n == GetField(dropped, Name)
                 IN  SetField(dropped,
                        IF n.isArray
                        THEN ArrayField(Name,
                                 [i \in 1..Len(n.items) |-> ReplaceChar(n.items[i], ":", "/")])
                        ELSE ScalarField(Name, ReplaceChar(n.scalar, ":", "/")))
    IN  MergeHint(renamed)

\* C7: for a document with a parsed frontmatter m, transformFrontmatter
\* returns (it does not throw) the text of exactly the mapping described
\* above, followed by the unchanged body.
C7_FieldRules ==
    (stage = "once" /\ ~parsed.frontmatter.isNull) =>
        /\ ~threw
        /\ frontmatter.fields = C7_Expected(parsed.frontmatter.fields)
        /\ result = reconstructMarkdown(C7_Expected(parsed.frontmatter.fields), parsed.body)

\* The three kinds of document C8 is about, read off the text.
C8_NoHeaderBlock(text) == ~StartsWith(text, OpenMarker)

C8_Unterminated(text) ==
    /\ StartsWith(text, OpenMarker)
    /\ IndexOfFrom(text, CloseMarker, Len(OpenMarker) + 1) = 0

C8_MalformedLine(line) ==
    /\ Trim(line) # <<>>
    /\ ~KvMatches(line)
    /\ ~StartsWith(Trim(line), <<"-", " ">>)

C8_HeaderOf(text) ==
    SubSeq(text, Len(OpenMarker) + 1,
           IndexOfFrom(text, CloseMarker, Len(OpenMarker) + 1) - 1)

C8_BodyOf(text) ==
    SubSeq(text, IndexOfFrom(text, CloseMarker, Len(OpenMarker) + 1) + Len(CloseMarker),
           Len(text))

\* A terminated header block with a line that is not blank, whose lines are
\* all blank or neither `key: value` nor a list item.
C8_OnlyMalformed(text) ==
    /\ StartsWith(text, OpenMarker)
    /\ IndexOfFrom(text, CloseMarker, Len(OpenMarker) + 1) # 0
    /\ LET ls == SplitLines(C8_HeaderOf(text))
       IN  /\ \E i \in 1..Len(ls) : C8_MalformedLine(ls[i])
           /\ \A i \in 1..Len(ls) : Trim(ls[i]) = <<>> \/ C8_MalformedLine(ls[i])

-----------------------------------------------------------------------------
(* SpecFileRefs: the Cursor transformFileReferences                        *)

MaxRefLines == 4

\* Lines of a body: two file-inclusion lines, a prose line, a prose line
\* that holds the text of a reference, a reference after a blank.
RefLines ==
    { <<"@", "a", ".", "m", "d">>,
      <<"@", "c", "/", "d", ".", "m", "d">>,
      <<"t", "e", "x", "t">>,
      <<"s", "e", "e", " ", "@", "a", ".", "m", "d", " ", "h", "e", "r", "e">>,
      <<" ", "@", "a", ".", "m", "d">> }

RefDocs ==
    UNION {{Join(ls, <<NL>>) : ls \in [1..n -> RefLines]} : n \in 1..MaxRefLines}

InitFileRefs ==
    /\ content \in RefDocs
    /\ pathPrefix = <<>>
    /\ result = <<>>
    /\ again = <<>>
    /\ parsed = NoParse
    /\ reparsed = NoParse
    /\ frontmatter = NoFrontmatter
    /\ threw = FALSE
    /\ stage = "text"
    /\ InstallerIdle

TransformFileReferences ==
    /\ stage = "text"
    /\ result' = transformFileReferences(content)
    /\ stage' = "refs"
    /\ UNCHANGED <<content, pathPrefix, again, parsed, reparsed, frontmatter, threw>>
    /\ UNCHANGED instVars

NextFileRefs == TransformFileReferences

SpecFileRefs == InitFileRefs /\ [][NextFileRefs]_vars

\* A line that is exactly an @ followed by a path without white space.
C3_ExactRef(line) ==
    /\ Len(line) > 1
    /\ line[1] = "@"
    /\ \A i \in 1..Len(line) : line[i] \notin WhiteSpace

\* The rewrite C3 describes, done in place in one scan of the lines: each
\* maximal run of such lines becomes the header and one bullet per path,
\* every other line is copied.
RECURSIVE C3_Rewrite(_, _)
C3_Rewrite(lines, inRun) ==
    IF lines = <<>> THEN <<>>
    ELSE IF C3_ExactRef(Head(lines))
    THEN (IF inRun THEN <<>> ELSE <<ReadHeader>>)
         \o <<<<"-", " ">> \o Tail(Head(lines))>>
         \o C3_Rewrite(Tail(lines), TRUE)
    ELSE <<Head(lines)>> \o C3_Rewrite(Tail(lines), FALSE)

\* C3: every maximal run of file-inclusion lines is replaced, at its own
\* position, by one block listing its paths in order; nothing else changes.
C3_RunsReplacedInPlace ==
    stage = "refs" => result = Join(C3_Rewrite(SplitLines(content), FALSE), <<NL>>)

\* The lines of the output that are neither lines of an instructional
\* block nor file-inclusion lines left in place.
C4_OutsideBlocks(lines) ==
    SelectSeq(lines, LAMBDA l : /\ l # ReadHeader
                                /\ ~StartsWith(l, <<"-", " ">>)
                                /\ ~C3_ExactRef(l))

\* C4: the lines of the document that are not file-inclusion lines are the
\* lines of the output outside the instructional blocks, unchanged and in
\* order.
C4_OtherLinesUnchanged ==
    stage = "refs" =>
        C4_OutsideBlocks(SplitLines(result)) =
            SelectSeq(SplitLines(content), LAMBDA l : ~C3_ExactRef(l))

-----------------------------------------------------------------------------
(* SpecCommands: the Cursor transformCommandReferences                     *)

MaxCommandTokens == 4

\* A text is made of up to MaxCommandTokens of these pieces: two command
\* references, the prefix of one, the namespace as a word, a colon, a slash
\* and a word between blanks.
CommandTokens ==
    { <<"/", "g", "s", "d", ":", "p", "l", "a", "n">>,
      <<"/", "g", "s", "d", ":", "h", "e", "l", "p">>,
      <<" ", "a", "n", "d", " ">>,
      <<"/", "g", "s", "d", ":">>,
      <<"g", "s", "d">>,
      <<":">>,
      <<"/">> }

CommandTexts ==
    UNION {{Join(ts, <<>>) : ts \in [1..n -> CommandTokens]} : n \in 1..MaxCommandTokens}

InitCommands ==
    /\ content \in CommandTexts
    /\ pathPrefix = <<>>
    /\ result = <<>>
    /\ again = <<>>
    /\ parsed = NoParse
    /\ reparsed = NoParse
    /\ frontmatter = NoFrontmatter
    /\ threw = FALSE
    /\ stage = "text"
    /\ InstallerIdle

TransformCommandReferences ==
    /\ stage = "text"
    /\ result' = transformCommandReferences(content)
    /\ stage' = "commands"
    /\ UNCHANGED <<content, pathPrefix, again, parsed, reparsed, frontmatter, threw>>
    /\ UNCHANGED instVars

NextCommands == TransformCommandReferences

SpecCommands == InitCommands /\ [][NextCommands]_vars

\* A command reference starts at position i of the text: `/gsd:` followed
\* by a character of [a-z-].
C5_CommandAt(text, i) ==
    /\ MatchesAt(text, GsdColon, i)
    /\ i + Len(GsdColon) <= Len(text)
    /\ text[i + Len(GsdColon)] \in CommandChars

\* The colon of every command reference of the input is a slash in the
\* output, and every other character is the input's.
C5_ColonsReplaced ==
    /\ Len(result) = Len(content)
    /\ \A j \in 1..Len(content) :
          result[j] = IF j >= Len(GsdColon) /\ C5_CommandAt(content, j - Len(GsdColon) + 1)
                      THEN "/"
                      ELSE content[j]

\* C5 as stated: the colons of the command references, and nothing else,
\* are replaced, and the output holds no `/gsd:` followed by [a-z-].
C5_NoReferenceLeft ==
    stage = "commands" =>
        /\ C5_ColonsReplaced
        /\ \A j \in 1..Len(result) : ~C5_CommandAt(result, j)

\* C5 as amended: the colons of the command references, and nothing else,
\* are replaced; `/gsd:` followed by [a-z-] is left in the output only where
\* the input holds `/gsd:gsd:`, whose first colon was replaced.
C5_OnlyInputReferencesReplaced ==
    stage = "commands" =>
        /\ C5_ColonsReplaced
        /\ \A j \in 1..Len(result) :
              C5_CommandAt(result, j) =>
                  /\ j > Len(GsdColon) - 1
                  /\ MatchesAt(content, <<"/", "g", "s", "d", ":", "g", "s", "d", ":">>,
                               j - Len(GsdColon) + 1)

\* `/gsd:plan and /gsd:help` becomes `/gsd/plan and /gsd/help`.
C5_Witness ==
    /\ stage = "commands"
    /\ content = <<"/", "g", "s", "d", ":", "p", "l", "a", "n", " ", "a", "n", "d", " ",
                   "/", "g", "s", "d", ":", "h", "e", "l", "p">>
    /\ result = <<"/", "g", "s", "d", "/", "p", "l", "a", "n", " ", "a", "n", "d", " ",
                  "/", "g", "s", "d", "/", "h", "e", "l", "p">>

-----------------------------------------------------------------------------
(* SpecContent: the Cursor transformContent, stage by stage                *)

MaxContentLines == 3

\* Lines of a body: a file-inclusion line under the source prefix, another
\* file-inclusion line, a command reference, the source prefix in prose.
ContentLines ==
    { <<"@", "~", "/", ".", "c", "l", "a", "u", "d", "e", "/", "a", ".", "m", "d">>,
      <<"@", "b", ".", "m", "d">>,
      <<"r", "u", "n", " ", "/", "g", "s", "d", ":", "p", "l", "a", "n">>,
      <<"~", "/", ".", "c", "l", "a", "u", "d", "e", "/", "x">> }

ContentHeaders ==
    { <<>>,
      <<"-", "-", "-", "\n", "n", "a", "m", "e", ":", " ", "g", ":", "x", "\n", "-", "-", "-", "\n">> }

ContentDocs ==
    UNION {{h \o Join(ls, <<NL>>) : ls \in [1..n -> ContentLines], h \in ContentHeaders} :
           n \in 1..MaxContentLines}

\* The --config-dir values: none, a directory, a directory with a blank in
\* its name.
ConfigDirs == { <<>>, <<"/", "o">>, <<"/", "o", " ", "p">> }

Adapters == {Adapter(CursorId, g, c) : g \in BOOLEAN, c \in ConfigDirs}

InitContent ==
    /\ content \in ContentDocs
    /\ pathPrefix \in {getPathPrefix(a) : a \in Adapters}
    /\ result = content
    /\ again = <<>>
    /\ parsed = NoParse
    /\ reparsed = NoParse
    /\ frontmatter = NoFrontmatter
    /\ threw = FALSE
    /\ stage = "content"
    /\ InstallerIdle

\* result = result.replace(/~\/\.claude\//g, pathPrefix)
PrefixStage ==
    /\ stage = "content"
    /\ result' = ReplaceClaudePrefix(result, pathPrefix)
    /\ stage' = "prefixed"
    /\ UNCHANGED <<content, pathPrefix, again, parsed, reparsed, frontmatter, threw>>
    /\ UNCHANGED instVars

\* result = this.transformFrontmatter(result)
FrontmatterStage ==
    /\ stage = "prefixed"
    /\ LET r == transformFrontmatter(result)
       IN  /\ result' = r.text
           /\ frontmatter' = r.frontmatter
           /\ threw' = r.threw
           /\ stage' = IF r.threw THEN "thrown" ELSE "frontmatter"
    /\ UNCHANGED <<content, pathPrefix, again, parsed, reparsed>>
    /\ UNCHANGED instVars

\* result = this.transformFileReferences(result, pathPrefix)
FileReferencesStage ==
    /\ stage = "frontmatter"
    /\ result' = transformFileReferences(result)
    /\ stage' = "fileReferences"
    /\ UNCHANGED <<content, pathPrefix, again, parsed, reparsed, frontmatter, threw>>
    /\ UNCHANGED instVars

\* result = this.transformCommandReferences(result); return result
CommandReferencesStage ==
    /\ stage = "fileReferences"
    /\ result' = transformCommandReferences(result)
    /\ stage' = "returned"
    /\ UNCHANGED <<content, pathPrefix, again, parsed, reparsed, frontmatter, threw>>
    /\ UNCHANGED instVars

NextContent ==
    \/ PrefixStage
    \/ FrontmatterStage
    \/ FileReferencesStage
    \/ CommandReferencesStage

SpecContent == InitContent /\ [][NextContent]_vars

\* The paths of the file-inclusion lines of the document that hold the
\* source prefix.
C6_PrefixedPaths ==
    {Tail(l) : l \in {SplitLines(content)[i] : i \in 1..Len(SplitLines(content))}
                     \cap {l \in ContentLines : C3_ExactRef(l) /\ Includes(l, ClaudePrefix)}}

\* C6: the prefix is substituted before the references are rewritten. When
\* transformContent returns, every file-inclusion path that held the source
\* prefix is a bullet of an instructional block with the path prefix in its
\* place, and the source prefix does not occur in the output.
C6_PrefixBeforeReferences ==
    stage = "returned" =>
        /\ \A path \in C6_PrefixedPaths :
              \E i \in 1..Len(SplitLines(result)) :
                  SplitLines(result)[i] =
                      <<"-", " ">> \o ReplaceAllFrom(path, ClaudePrefix, pathPrefix, 1)
        /\ ~Includes(result, ClaudePrefix)

-----------------------------------------------------------------------------
(* bin/install.js: argument parsing, platform validation, dispatch         *)

\* The own properties of the PLATFORMS object literal.
RegisteredPlatforms == {ClaudeId, CursorId}

\* The lower-case property names PLATFORMS inherits from Object.prototype.
InheritedProperties ==
    { <<"c", "o", "n", "s", "t", "r", "u", "c", "t", "o", "r">>,
      <<"_", "_", "p", "r", "o", "t", "o", "_", "_">> }

\* PLATFORMS[id]: a registry entry, an inherited value (truthy, without an
\* `adapter` property), or undefined.
PLATFORMS(id) ==
    IF id \in RegisteredPlatforms THEN "entry"
    ELSE IF id \in InheritedProperties THEN "inherited"
    ELSE "undefined"

LowerLetters ==
    <<"a", "b", "c", "d", "e", "f", "g", "h", "i", "j", "k", "l", "m",
      "n", "o", "p", "q", "r", "s", "t", "u", "v", "w", "x", "y", "z">>

UpperLetters ==
    <<"A", "B", "C", "D", "E", "F", "G", "H", "I", "J", "K", "L", "M",
      "N", "O", "P", "Q", "R", "S", "T", "U", "V", "W", "X", "Y", "Z">>

\* String.prototype.toLowerCase
toLowerCase(s) ==
    [i \in 1..Len(s) |->
        IF s[i] \in UpperCase
        THEN LowerLetters[CHOOSE k \in 1..Len(UpperLetters) : UpperLetters[k] = s[i]]
        ELSE s[i]]

\* args.includes(a) || args.includes(b)
ArgsInclude(a, flags) == \E i \in 1..Len(a) : a[i] \in flags

\* args.findIndex(arg => arg === one of flags), 0 for -1
FindIndex(a, flags) ==
    IF ArgsInclude(a, flags)
    THEN CHOOSE i \in 1..Len(a) :
            a[i] \in flags /\ \A j \in 1..(i - 1) : a[j] \notin flags
    ELSE 0

\* args.find(arg => arg.startsWith(one of prefixes)), as an index, 0 for
\* undefined
FindStartingWith(a, prefixes) ==
    LET hit(i) == \E p \in prefixes : StartsWith(a[i], p)
    IN  IF \E i \in 1..Len(a) : hit(i)
        THEN CHOOSE i \in 1..Len(a) : hit(i) /\ \A j \in 1..(i - 1) : ~hit(j)
        ELSE 0

\* arg.split('=')[1] of an argument that holds an `=`
SplitEquals(arg) ==
    LET first == IndexOfFrom(arg, <<"=">>, 1)
        second == IndexOfFrom(arg, <<"=">>, first + 1)
    IN  SubSeq(arg, first + 1, IF second = 0 THEN Len(arg) ELSE second - 1)

hasGlobal == ArgsInclude(args, {<<"-", "-", "g", "l", "o", "b", "a", "l">>, <<"-", "g">>})
hasLocal == ArgsInclude(args, {<<"-", "-", "l", "o", "c", "a", "l">>, <<"-", "l">>})
hasHelp == ArgsInclude(args, {<<"-", "-", "h", "e", "l", "p">>, <<"-", "h">>})

\* !nextArg || nextArg.startsWith('-')
MissingValue(a, i) == i = Len(a) \/ a[i + 1] = <<>> \/ StartsWith(a[i + 1], <<"-">>)

\* parseAiArg: exit is TRUE when it ends the process with status 1.
parseAiArg(a) ==
    LET aiIndex == FindIndex(a, {<<"-", "-", "a", "i">>})
        aiArg == FindStartingWith(a, {<<"-", "-", "a", "i", "=">>})
    IN  IF aiIndex # 0
        THEN IF MissingValue(a, aiIndex)
             THEN [exit |-> TRUE, value |-> <<>>]
             ELSE [exit |-> FALSE, value |-> toLowerCase(a[aiIndex + 1])]
        ELSE IF aiArg # 0
        THEN [exit |-> FALSE, value |-> toLowerCase(SplitEquals(a[aiArg]))]
        ELSE [exit |-> FALSE, value |-> ClaudeId]

\* parseConfigDirArg: exit is TRUE when it ends the process with status 1;
\* the value <<>> stands for null.
parseConfigDirArg(a) ==
    LET configDirIndex == FindIndex(a, {<<"-", "-", "c", "o", "n", "f", "i", "g", "-", "d", "i", "r">>, <<"-", "c">>})
        configDirArg == FindStartingWith(a, {<<"-", "-", "c", "o", "n", "f", "i", "g", "-", "d", "i", "r", "=">>, <<"-", "c", "=">>})
    IN  IF configDirIndex # 0
        THEN IF MissingValue(a, configDirIndex)
             THEN [exit |-> TRUE, value |-> <<>>]
             ELSE [exit |-> FALSE, value |-> a[configDirIndex + 1]]
        ELSE IF configDirArg # 0
        THEN [exit |-> FALSE, value |-> SplitEquals(a[configDirArg])]
        ELSE [exit |-> FALSE, value |-> <<>>]

\* os.homedir() and process.cwd()
HomeDir == <<"/", "h">>
Cwd == <<"/", "w">>

\* expandTilde; path.join(home, rest) of a rest without dots or doubled
\* slashes.
expandTilde(filePath) ==
    IF StartsWith(filePath, <<"~", "/">>)
    THEN HomeDir \o <<"/">> \o Slice(filePath, 2)
    ELSE filePath

\* copyWithTransformation of a source directory that holds one markdown
\* file: the destination is created, the source listed, the file read,
\* transformed and written.
copyWithTransformation(destDir) ==
    << [op |-> "mkdirSync", path |-> destDir],
       [op |-> "readdirSync", path |-> destDir],
       [op |-> "readFileSync", path |-> destDir],
       [op |-> "transformContent", path |-> destDir],
       [op |-> "writeFileSync", path |-> destDir] >>

\* The file-system calls of install() for a target directory, for a
\* platform without additional files.
InstallIO(targetDir) ==
    << [op |-> "mkdirSync", path |-> targetDir \o <<"/", "c", "o", "m", "m", "a", "n", "d", "s">>] >>
    \o copyWithTransformation(targetDir \o <<"/", "c", "o", "m", "m", "a", "n", "d", "s", "/", "g", "s", "d">>)
    \o copyWithTransformation(targetDir \o <<"/", "g", "e", "t", "-", "s", "h", "i", "t", "-", "d", "o", "n", "e">>)

\* install(isGlobal): the adapter is loaded first; require(undefined)
\* throws when the platform's value has no `adapter`, and the uncaught
\* TypeError ends the process with status 1.
Install(isGlobal) ==
    LET configDir == IF expandTilde(explicitConfigDir) # <<>>
                     THEN expandTilde(explicitConfigDir)
                     ELSE expandTilde(env)
        adapter == Adapter(selectedPlatform, isGlobal, configDir)
    IN  /\ installs' = Append(installs, [isGlobal |-> isGlobal, configDir |-> configDir])
        /\ IF PLATFORMS(selectedPlatform) = "entry"
           THEN /\ loaded' = Append(loaded, adapter)
                /\ io' = io \o InstallIO(getTargetDir(adapter, Cwd, HomeDir))
                /\ pc' = "done"
                /\ exitCode' = 0
           ELSE /\ pc' = "uncaught"
                /\ exitCode' = 1
                /\ UNCHANGED <<loaded, io>>

\* promptLocation up to the question: two adapters are loaded to print the
\* two target directories.
PromptLocation ==
    /\ IF PLATFORMS(selectedPlatform) = "entry"
       THEN /\ loaded' = loaded \o << Adapter(selectedPlatform, TRUE, <<>>),
                                     Adapter(selectedPlatform, FALSE, <<>>) >>
            /\ pc' = "question"
            /\ exitCode' = exitCode
       ELSE /\ pc' = "uncaught"
            /\ exitCode' = 1
            /\ loaded' = loaded
    /\ UNCHANGED <<installs, io>>

\* process.exit(1) after console.error
ConfigError ==
    /\ pc' = "configError"
    /\ exitCode' = 1
    /\ UNCHANGED <<installs, loaded, io>>

-----------------------------------------------------------------------------
(* SpecInstall: a run of bin/install.js                                    *)

MaxArgs == 3

\* Command-line arguments: the platform option in both forms, a registered
\* platform, an unknown one, a name Object.prototype defines, the scope
\* flags, help, and the directory override in both forms.
ArgTokens ==
    { <<"-", "-", "a", "i">>,
      <<"-", "-", "a", "i", "=", "C", "u", "r", "s", "o", "r">>,
      <<"c", "u", "r", "s", "o", "r">>,
      <<"v", "s", "c", "o", "d", "e">>,
      <<"c", "o", "n", "s", "t", "r", "u", "c", "t", "o", "r">>,
      <<"-", "g">>,
      <<"-", "l">>,
      <<"-", "h">>,
      <<"-", "c">>,
      <<"/", "x">>,
      <<"-", "-", "c", "o", "n", "f", "i", "g", "-", "d", "i", "r", "=", "~", "/", "y">> }

ArgLists == UNION {[1..n -> ArgTokens] : n \in 0..MaxArgs}

\* Values of CLAUDE_CONFIG_DIR: not set, or a directory.
EnvConfigDirs == { <<>>, <<"/", "e">> }

\* Lines typed at the prompt.
Answers == { <<>>, <<"1">>, <<"2">>, <<" ", "2">> }

InitInstall ==
    /\ DocIdle
    /\ stage = "idle"
    /\ args \in ArgLists
    /\ env \in EnvConfigDirs
    /\ selectedPlatform = <<>>
    /\ explicitConfigDir = <<>>
    /\ choice = <<>>
    /\ pc = "parseAiArg"
    /\ installs = <<>>
    /\ loaded = <<>>
    /\ io = <<>>
    /\ exitCode = -1
    /\ CallIdle

\* const selectedPlatform = parseAiArg()
ParseAiArg ==
    /\ pc = "parseAiArg"
    /\ LET r == parseAiArg(args)
       IN  IF r.exit
           THEN ConfigError /\ UNCHANGED selectedPlatform
           ELSE /\ selectedPlatform' = r.value
                /\ pc' = "parseConfigDirArg"
                /\ UNCHANGED <<installs, loaded, io, exitCode>>
    /\ UNCHANGED <<args, env, explicitConfigDir, choice>>
    /\ UNCHANGED docVars
    /\ UNCHANGED callVars

\* const explicitConfigDir = parseConfigDirArg()
ParseConfigDirArg ==
    /\ pc = "parseConfigDirArg"
    /\ LET r == parseConfigDirArg(args)
       IN  IF r.exit
           THEN ConfigError /\ UNCHANGED explicitConfigDir
           ELSE /\ explicitConfigDir' = r.value
                /\ pc' = "validate"
                /\ UNCHANGED <<installs, loaded, io, exitCode>>
    /\ UNCHANGED <<args, env, selectedPlatform, choice>>
    /\ UNCHANGED docVars
    /\ UNCHANGED callVars

\* if (!PLATFORMS[selectedPlatform]) { ... process.exit(1) }
ValidatePlatform ==
    /\ pc = "validate"
    /\ IF PLATFORMS(selectedPlatform) = "undefined"
       THEN ConfigError
       ELSE /\ pc' = "help"
            /\ UNCHANGED <<installs, loaded, io, exitCode>>
    /\ UNCHANGED <<args, env, selectedPlatform, explicitConfigDir, choice>>
    /\ UNCHANGED docVars
    /\ UNCHANGED callVars

\* if (hasHelp) { ... process.exit(0) }
ShowHelp ==
    /\ pc = "help"
    /\ IF hasHelp
       THEN /\ pc' = "helpShown"
            /\ exitCode' = 0
       ELSE /\ pc' = "main"
            /\ exitCode' = exitCode
    /\ UNCHANGED <<args, env, selectedPlatform, explicitConfigDir, choice,
                   installs, loaded, io>>
    /\ UNCHANGED docVars
    /\ UNCHANGED callVars

\* The dispatch at the end of the script, with the call it makes.
Main ==
    /\ pc = "main"
    /\ IF hasGlobal /\ hasLocal THEN ConfigError
       ELSE IF explicitConfigDir # <<>> /\ hasLocal THEN ConfigError
       ELSE IF hasGlobal THEN Install(TRUE)
       ELSE IF hasLocal THEN Install(FALSE)
       ELSE PromptLocation
    /\ UNCHANGED <<args, env, selectedPlatform, explicitConfigDir, choice>>
    /\ UNCHANGED docVars
    /\ UNCHANGED callVars

\* The callback of rl.question
Answer ==
    /\ pc = "question"
    /\ \E answer \in Answers :
          /\ choice' = (IF Trim(answer) = <<>> THEN <<"1">> ELSE Trim(answer))
          /\ Install(choice' # <<"2">>)
    /\ UNCHANGED <<args, env, selectedPlatform, explicitConfigDir>>
    /\ UNCHANGED docVars
    /\ UNCHANGED callVars

NextInstall ==
    \/ ParseAiArg
    \/ ParseConfigDirArg
    \/ ValidatePlatform
    \/ ShowHelp
    \/ Main
    \/ Answer

SpecInstall == InitInstall /\ [][NextInstall]_vars

\* The run is past parseAiArg and the platform it selected, if any, is not
\* a registered one.
C9_UnknownPlatform ==
    /\ pc # "parseAiArg"
    /\ selectedPlatform \notin RegisteredPlatforms

\* C9: a run whose selected platform is not registered loads no adapter,
\* creates no directory, reads no file and attempts no transformation, and
\* when it has ended it has ended with a configuration error.
C9_UnknownPlatformRejected ==
    C9_UnknownPlatform =>
        /\ loaded = <<>>
        /\ io = <<>>
        /\ exitCode # -1 => pc = "configError"

\* Local scope is requested by the flag or by the choice at the prompt.
C10_LocalRequested == hasLocal \/ choice = <<"2">>

\* The two conflicts: both scopes, or the directory option with local scope.
C10_Conflict ==
    \/ hasGlobal /\ hasLocal
    \/ explicitConfigDir # <<>> /\ C10_LocalRequested

\* C10: a run with conflicting options does no file I/O and, when it has
\* ended, has ended with a configuration error; install() is never entered
\* with local scope while the directory option is set.
C10_ConflictIsFatal ==
    /\ C10_Conflict =>
          /\ io = <<>>
          /\ exitCode # -1 => pc = "configError"
    /\ \A i \in 1..Len(installs) :
          ~(~installs[i].isGlobal /\ explicitConfigDir # <<>>)

-----------------------------------------------------------------------------
(* SpecAdapter: the adapter constructor, getTargetDir and getPathPrefix    *)

\* new AdapterClass(options): this.isGlobal = options.isGlobal ?? true and
\* this.configDir = options.configDir ?? null
AdapterBase(id, opts) ==
    Adapter(id,
            IF opts.hasIsGlobal THEN opts.isGlobal ELSE TRUE,
            IF opts.hasConfigDir THEN opts.configDir ELSE <<>>)

\* Override directories: none (an empty string), absolute, relative to
\* the working directory, and with a trailing slash.
OverrideDirs ==
    { <<>>,
      <<"/", "o">>,
      <<".", "/", "o">>,
      <<"o", "/">> }

\* The options objects: either property may be missing.
AdapterOptions ==
    { o \in [hasIsGlobal : BOOLEAN, isGlobal : BOOLEAN,
             hasConfigDir : BOOLEAN, configDir : OverrideDirs] :
         /\ ~o.hasIsGlobal => ~o.isGlobal
         /\ ~o.hasConfigDir => o.configDir = <<>> }

WorkingDirs == { <<"/", "w">>, <<"/", "h">> }
HomeDirs == { <<"/", "h">>, <<"/", "r">> }

InitAdapter ==
    /\ content = <<>>
    /\ pathPrefix = <<>>
    /\ result = <<>>
    /\ again = <<>>
    /\ parsed = NoParse
    /\ reparsed = NoParse
    /\ frontmatter = NoFrontmatter
    /\ threw = FALSE
    /\ stage = "new"
    /\ args = <<>>
    /\ env = <<>>
    /\ selectedPlatform \in RegisteredPlatforms
    /\ explicitConfigDir = <<>>
    /\ choice = <<>>
    /\ pc = "idle"
    /\ installs = <<>>
    /\ loaded = <<>>
    /\ io = <<>>
    /\ exitCode = -1
    /\ options \in AdapterOptions
    /\ processCwd \in WorkingDirs
    /\ osHomedir \in HomeDirs

AdapterFrame ==
    UNCHANGED <<content, again, parsed, reparsed, frontmatter, threw,
                args, env, selectedPlatform, explicitConfigDir, choice,
                pc, installs, io, exitCode, options, processCwd, osHomedir>>

\* new AdapterClass(options)
Construct ==
    /\ stage = "new"
    /\ loaded' = <<AdapterBase(selectedPlatform, options)>>
    /\ stage' = "constructed"
    /\ UNCHANGED <<result, pathPrefix>>
    /\ AdapterFrame

\* adapter.getTargetDir(process.cwd(), os.homedir())
GetTargetDir ==
    /\ stage \in {"constructed", "pathPrefix"}
    /\ result' = getTargetDir(loaded[1], processCwd, osHomedir)
    /\ stage' = (IF stage = "constructed" THEN "targetDir" ELSE "both")
    /\ UNCHANGED <<loaded, pathPrefix>>
    /\ AdapterFrame

\* adapter.getPathPrefix()
GetPathPrefix ==
    /\ stage \in {"constructed", "targetDir"}
    /\ pathPrefix' = getPathPrefix(loaded[1])
    /\ stage' = (IF stage = "constructed" THEN "pathPrefix" ELSE "both")
    /\ UNCHANGED <<loaded, result>>
    /\ AdapterFrame

NextAdapter ==
    \/ Construct
    \/ GetTargetDir
    \/ GetPathPrefix

SpecAdapter == InitAdapter /\ [][NextAdapter]_vars

\* The override, the scope and the directory name the claim speaks of, read
\* off the options and the platform.
C11_Override == IF options.hasConfigDir THEN options.configDir ELSE <<>>

C11_Global == IF options.hasIsGlobal THEN options.isGlobal ELSE TRUE

C11_DirName ==
    IF selectedPlatform = CursorId
    THEN <<".", "c", "u", "r", "s", "o", "r">>
    ELSE <<".", "c", "l", "a", "u", "d", "e">>

\* The absolute form of a path: a leading ~/ is the home directory, a
\* leading ./ the working directory.
C11_Resolve(path) ==
    IF StartsWith(path, <<"~", "/">>) THEN osHomedir \o Slice(path, 1)
    ELSE IF StartsWith(path, <<".", "/">>) THEN processCwd \o Slice(path, 1)
    ELSE path

\* C11: getTargetDir returns the override when one is set, else the
\* platform directory under home for a global install and under the working
\* directory for a local one; getPathPrefix follows the same three-way rule
\* with ~ and . and a trailing slash; the two designate the same location.
C11_ThreeWayRule ==
    /\ stage \in {"targetDir", "both"} =>
          result = (IF C11_Override # <<>> THEN C11_Override
                    ELSE IF C11_Global THEN osHomedir \o <<"/">> \o C11_DirName
                    ELSE processCwd \o <<"/">> \o C11_DirName)
    /\ stage \in {"pathPrefix", "both"} =>
          pathPrefix = (IF C11_Override # <<>> THEN C11_Override \o <<"/">>
                        ELSE IF C11_Global THEN <<"~", "/">> \o C11_DirName \o <<"/">>
                        ELSE <<".", "/">> \o C11_DirName \o <<"/">>)
    /\ stage = "both" =>
          C11_Resolve(pathPrefix) = C11_Resolve(result \o <<"/">>)

\* Both functions have been called on a local adapter with an override.
C11_Witness ==
    /\ stage = "both"
    /\ options.hasIsGlobal /\ ~options.isGlobal
    /\ options.configDir = <<"/", "o">>
    /\ result = <<"/", "o">>
    /\ pathPrefix = <<"/", "o", "/">>

-----------------------------------------------------------------------------
(* SpecMarkers: parseFrontmatter's split of a text at the markers          *)

MaxMarkerLines == 4

\* Lines of a text: the marker, a field, a blank line, a line of prose.  A
\* text that ends with a blank line ends with a line feed.
MarkerLines ==
    { <<"-", "-", "-">>,
      <<"a", ":", " ", "b">>,
      <<>>,
      <<"x">> }

MarkerDocs ==
    UNION {{Join(ls, <<NL>>) : ls \in [1..n -> MarkerLines]} : n \in 1..MaxMarkerLines}

InitMarkers ==
    /\ content \in MarkerDocs
    /\ pathPrefix = <<>>
    /\ result = <<>>
    /\ again = <<>>
    /\ parsed = NoParse
    /\ reparsed = NoParse
    /\ frontmatter = NoFrontmatter
    /\ threw = FALSE
    /\ stage = "text"
    /\ InstallerIdle

\* parseFrontmatter(content)
ParseText ==
    /\ stage = "text"
    /\ parsed' = parseFrontmatter(content)
    /\ stage' = "split"
    /\ UNCHANGED <<content, pathPrefix, result, again, reparsed, frontmatter, threw>>
    /\ UNCHANGED instVars

NextMarkers == ParseText

SpecMarkers == InitMarkers /\ [][NextMarkers]_vars

\* The marker line.
C12_Marker == <<"-", "-", "-">>

\* The text begins with the marker line and a later line is the marker.
C12_HasBlock(lines) ==
    /\ lines[1] = C12_Marker
    /\ \E k \in 2..Len(lines) : lines[k] = C12_Marker

\* The first closing marker line.
C12_Close(lines) ==
    CHOOSE k \in 2..Len(lines) :
        /\ lines[k] = C12_Marker
        /\ \A j \in 2..(k - 1) : lines[j] # C12_Marker

\* C12: a text that begins with the marker line and has a later marker line
\* is split at the first such line, the header being the lines between the
\* two markers and the body the lines after the closing one; for any other
\* text the frontmatter and raw are null and the body is the whole text.
C12_SplitAtMarkers ==
    stage = "split" =>
        LET lines == SplitLines(content)
        IN  IF C12_HasBlock(lines)
            THEN /\ ~parsed.frontmatter.isNull
                 /\ ~parsed.rawIsNull
                 /\ parsed.raw = Join(SubSeq(lines, 2, C12_Close(lines) - 1), <<NL>>)
                 /\ parsed.body = Join(SubSeq(lines, C12_Close(lines) + 1, Len(lines)), <<NL>>)
            ELSE /\ parsed.frontmatter.isNull
                 /\ parsed.rawIsNull
                 /\ parsed.body = content

-----------------------------------------------------------------------------
(* SpecSpecialPaths: transformFileReferences on paths with characters that *)
(* are special in a pattern or in a replacement text                       *)

MaxSpecialLines == 3

\* File-inclusion lines whose paths hold characters special in a pattern,
\* two whose paths hold a dollar sequence of a replacement text, and a line
\* of prose that the second path would match as a pattern.
SpecialLines ==
    { <<"@", "a", ".", "b", "(", "c", ")", ".", "m", "d">>,
      <<"@", "[", "x", "]", "|", "y", "\\", "^", "z", "*", "+", "?">>,
      <<"@", "a", "$", "$", "b", ".", "m", "d">>,
      <<"@", "a", "$", "&", "b">>,
      <<"=", "@", "a", "X", "b", "c", "X", "m", "d">> }

SpecialDocs ==
    UNION {{Join(ls, <<NL>>) : ls \in [1..n -> SpecialLines]} : n \in 1..MaxSpecialLines}

InitSpecialPaths ==
    /\ content \in SpecialDocs
    /\ pathPrefix = <<>>
    /\ result = <<>>
    /\ again = <<>>
    /\ parsed = NoParse
    /\ reparsed = NoParse
    /\ frontmatter = NoFrontmatter
    /\ threw = FALSE
    /\ stage = "text"
    /\ InstallerIdle

\* transformFileReferences(content, pathPrefix)
TransformSpecialPaths ==
    /\ stage = "text"
    /\ result' = transformFileReferences(content)
    /\ stage' = "special"
    /\ UNCHANGED <<content, pathPrefix, again, parsed, reparsed, frontmatter, threw>>
    /\ UNCHANGED instVars

NextSpecialPaths == TransformSpecialPaths

SpecSpecialPaths == InitSpecialPaths /\ [][NextSpecialPaths]_vars

\* C13: a run whose paths hold special characters is matched as literal
\* text and replaced by a block whose bullets carry each path character for
\* character; no other text is matched or changed.
C13_LiteralPaths ==
    stage = "special" => result = Join(C3_Rewrite(SplitLines(content), FALSE), <<NL>>)

====
